---- MODULE Spec2Model ----
(***************************************************************************)
(* State-machine model of backend/main.py: the in-memory store DB, the     *)
(* add_to_cart handler (a sync endpoint, run on worker threads), the       *)
(* checkout handler (a coroutine on the single event loop), the admin      *)
(* reads (sync endpoints) and the ConnectionManager used to broadcast new   *)
(* discount codes.                                                         *)
(*                                                                         *)
(* Money is exact, in mills (tenths of a cent): 19.99 is 19990.            *)
(* round(x, 2) of a value that is an exact half cent goes up or down       *)
(* depending on the binary double that holds it, so Round2 offers both.    *)
(***************************************************************************)
EXTENDS Integers, Sequences, FiniteSets, TLC

\* ---------------------------------------------------------------- bounds
MaxOrders == 3
MaxQty == 1
CoMaxOrders == 6
CoMaxQty == 5
SeqMaxOrders == 3
SeqMaxQty == 2
RaceMaxOrders == 2
RaceMaxQty == 2
NumThreads == 2
NumCoros == 2
NumSockets == 2

\* ------------------------------------------------------------- constants
None == "None"

nth_order_value == 3

ProductIds == {"item_001", "item_002", "item_003", "item_004"}

PRODUCTS ==
  [i \in ProductIds |->
     CASE i = "item_001" -> 19990
       [] i = "item_002" -> 15490
       [] i = "item_003" -> 24990
       [] i = "item_004" -> 49990]

\* ---------------------------------------------------------------- inputs
ItemIds == {"item_001", "invalid_item"}
Quantities == {1}
Codes == {"SAVE10-A1B2", "SAVE10-C3D4"}
PayloadCodes == Codes \cup {None}
CoItemIds == {"item_004", "invalid_item"}
CoQuantities == {5}
SeqItemIds == {"item_002", "invalid_item"}
RaceItemIds == {"item_001", "item_002", "invalid_item"}
SeqQuantities == {-1, 0, 1}

Threads == 1..NumThreads
Coros == 1..NumCoros
Sockets == 1..NumSockets

\* the worker thread and the subscriber used when requests do not overlap
CoThreads == {1}
CoSockets == {1}
SeqCoros == {1}

\* the two checkout requests that race in the long runs
CoCoros == {1, 2}

VARIABLES
  cart,                   \* DB["cart"]: quantity per item id
  cart_order,             \* DB["cart"]: its keys in insertion order
  orders,                 \* DB["orders"]
  store_stats,            \* DB["store_stats"]
  current_discount_code,  \* DB["current_discount_code"]
  active_connections,     \* manager.active_connections
  sockets,                \* per websocket: connection state (closed, accepting,
                          \* open, stalled, disconnected) and messages received
  threads,                \* add_to_cart requests on worker threads
  coros,                  \* checkout requests on the event loop; the field
                          \* active_at_request is history: the request arrived
                          \* with the code that was the current one
  loop,                   \* the set holding the coroutine the event loop is running
  redeemed,               \* history: the codes some checkout has applied
  added,                  \* history: quantity added per item since the cart was last cleared
  replies,                \* admin handlers that have returned, reply not yet built
  response                \* the HTTP response the last step sent, if any

vars == <<cart, cart_order, orders, store_stats, current_discount_code,
          active_connections, sockets, threads, coros, loop, redeemed, added,
          replies, response>>

\* --------------------------------------------------------------- helpers
EmptyCart == [i \in {} |-> 0]

CartGet(c, k, d) == IF k \in DOMAIN c THEN c[k] ELSE d

CartSet(c, k, v) == [i \in (DOMAIN c) \cup {k} |-> IF i = k THEN v ELSE c[i]]

RECURSIVE SumOver(_, _)
SumOver(f, S) ==
  IF S = {} THEN 0
  ELSE LET k == CHOOSE x \in S : TRUE IN f[k] + SumOver(f, S \ {k})

Subtotal(c) == SumOver([i \in DOMAIN c |-> PRODUCTS[i] * c[i]], DOMAIN c)

ItemsInOrder(c) == SumOver(c, DOMAIN c)

Truthy(code) == code # None /\ code # ""

Abs(x) == IF x < 0 THEN -x ELSE x

\* round(x, 2): the set of results, in mills
Round2(x) ==
  LET lo == (x \div 10) * 10
      r == x - lo
  IN IF r < 5 THEN {lo}
     ELSE IF r > 5 THEN {lo + 10}
     ELSE {lo, lo + 10}

RECURSIVE RemoveFirst(_, _)
RemoveFirst(s, x) ==
  IF s = <<>> THEN <<>>
  ELSE IF Head(s) = x THEN Tail(s)
  ELSE <<Head(s)>> \o RemoveFirst(Tail(s), x)

\* the connections in manager.active_connections
Registered(conns) == {conns[k] : k \in 1..Len(conns)}

IdleThread == [pc |-> "idle", item_id |-> None, quantity |-> 0,
               current_quantity |-> 0]

IdleCoro == [pc |-> "idle", discount_code |-> None, subtotal |-> 0,
             items_in_order |-> 0, discount_amount |-> 0, final_total |-> 0,
             discount_applied |-> FALSE, used |-> 0, pos |-> 0, index |-> 0,
             connection |-> 0, active_at_request |-> FALSE]

Response(handler, status) == [handler |-> handler, status |-> status]

NoResponse == Response(None, 0)

\* ------------------------------------------------------------------ Init
Init ==
  /\ cart = EmptyCart
  /\ cart_order = <<>>
  /\ orders = <<>>
  /\ store_stats = [items_purchased_count |-> 0, total_purchase_amount |-> 0,
                    discount_codes_list |-> <<>>, total_discount_amount |-> 0]
  /\ current_discount_code = None
  /\ active_connections = <<>>
  /\ sockets = [w \in Sockets |-> [state |-> "closed", received |-> 0]]
  /\ threads = [t \in Threads |-> IdleThread]
  /\ coros = [c \in Coros |-> IdleCoro]
  /\ loop = {}
  /\ redeemed = {}
  /\ added = [i \in ProductIds |-> 0]
  /\ replies = {}
  /\ response = NoResponse

\* ----------------------------------------------------------- add_to_cart
\* lines 106-107: unknown item, 404
add_to_cart_404(t, item_id, quantity) ==
  /\ threads[t].pc = "idle"
  /\ item_id \notin ProductIds
  /\ response' = Response("add_to_cart", 404)
  /\ UNCHANGED <<cart, cart_order, orders, store_stats,
                 current_discount_code, active_connections, sockets, threads,
                 coros, loop, redeemed, added, replies>>

\* lines 106, 109: current_quantity = DB["cart"].get(item.item_id, 0)
add_to_cart_L109(t, item_id, quantity) ==
  /\ threads[t].pc = "idle"
  /\ item_id \in ProductIds
  /\ threads' = [threads EXCEPT ![t] =
        [pc |-> "L110", item_id |-> item_id, quantity |-> quantity,
         current_quantity |-> CartGet(cart, item_id, 0)]]
  /\ response' = NoResponse
  /\ UNCHANGED <<cart, cart_order, orders, store_stats,
                 current_discount_code, active_connections, sockets, coros,
                 loop, redeemed, added, replies>>

\* lines 110-111: DB["cart"][item.item_id] = current_quantity + item.quantity
add_to_cart_L110(t) ==
  /\ threads[t].pc = "L110"
  /\ cart' = CartSet(cart, threads[t].item_id,
                     threads[t].current_quantity + threads[t].quantity)
  /\ cart_order' = IF threads[t].item_id \in DOMAIN cart THEN cart_order
                    ELSE Append(cart_order, threads[t].item_id)
  /\ added' = [added EXCEPT ![threads[t].item_id] = @ + threads[t].quantity]
  /\ threads' = [threads EXCEPT ![t] = IdleThread]
  /\ response' = Response("add_to_cart", 200)
  /\ UNCHANGED <<orders, store_stats, current_discount_code,
                 active_connections, sockets, coros, loop, redeemed, replies>>

\* -------------------------------------------------------------- checkout
\* line 119: a checkout request arrives; its coroutine waits for the loop
checkout_request(c, discount_code) ==
  /\ coros[c].pc = "idle"
  /\ coros' = [coros EXCEPT ![c] =
        [IdleCoro EXCEPT !.pc = "L125", !.discount_code = discount_code,
                         !.active_at_request =
                             (Truthy(discount_code)
                              /\ discount_code = current_discount_code)]]
  /\ response' = NoResponse
  /\ UNCHANGED <<cart, cart_order, orders, store_stats,
                 current_discount_code, active_connections, sockets, threads,
                 loop, redeemed, added, replies>>

\* lines 125-126: empty cart, 400
checkout_400(c) ==
  /\ coros[c].pc = "L125"
  /\ loop = {}
  /\ DOMAIN cart = {}
  /\ coros' = [coros EXCEPT ![c] = IdleCoro]
  /\ response' = Response("checkout", 400)
  /\ UNCHANGED <<cart, cart_order, orders, store_stats,
                 current_discount_code, active_connections, sockets, threads,
                 loop, redeemed, added, replies>>

\* line 125: the cart is not empty, the coroutine runs on
checkout_L125(c) ==
  /\ coros[c].pc = "L125"
  /\ loop = {}
  /\ DOMAIN cart # {}
  /\ coros' = [coros EXCEPT ![c].pc = "L128"]
  /\ loop' = {c}
  /\ response' = NoResponse
  /\ UNCHANGED <<cart, cart_order, orders, store_stats,
                 current_discount_code, active_connections, sockets, threads,
                 redeemed, added, replies>>

\* line 128: DB["cart"].items() and the generator over it are created; the
\* dict iterator remembers the size of the dict
checkout_L128(c) ==
  /\ coros[c].pc = "L128"
  /\ loop = {c}
  /\ coros' = [coros EXCEPT ![c].pc = "L128_next", ![c].subtotal = 0,
                            ![c].used = Len(cart_order), ![c].pos = 0]
  /\ response' = NoResponse
  /\ UNCHANGED <<cart, cart_order, orders, store_stats, current_discount_code,
                 active_connections, sockets, threads, loop, redeemed, added,
                 replies>>

\* line 128: sum takes the next item of the generator: the dict is as large
\* as it was, the next key in insertion order and its quantity of this
\* moment are read, price * quantity is added
checkout_L128_next(c) ==
  /\ coros[c].pc = "L128_next"
  /\ loop = {c}
  /\ coros[c].used = Len(cart_order)
  /\ coros[c].pos < Len(cart_order)
  /\ LET item_id == cart_order[coros[c].pos + 1]
     IN coros' = [coros EXCEPT
                    ![c].subtotal = @ + PRODUCTS[item_id] * cart[item_id],
                    ![c].pos = @ + 1]
  /\ response' = NoResponse
  /\ UNCHANGED <<cart, cart_order, orders, store_stats, current_discount_code,
                 active_connections, sockets, threads, loop, redeemed, added,
                 replies>>

\* line 128: the generator is exhausted, subtotal is bound
checkout_L128_stop(c) ==
  /\ coros[c].pc = "L128_next"
  /\ loop = {c}
  /\ coros[c].used = Len(cart_order)
  /\ coros[c].pos = Len(cart_order)
  /\ coros' = [coros EXCEPT ![c].pc = "L129", ![c].used = 0, ![c].pos = 0]
  /\ response' = NoResponse
  /\ UNCHANGED <<cart, cart_order, orders, store_stats, current_discount_code,
                 active_connections, sockets, threads, loop, redeemed, added,
                 replies>>

\* line 128: an add_to_cart has inserted a key since the iterator was made;
\* the iterator raises RuntimeError (dictionary changed size during
\* iteration), checkout ends in a 500 before any order is built
checkout_L128_raise(c) ==
  /\ coros[c].pc = "L128_next"
  /\ loop = {c}
  /\ coros[c].used # Len(cart_order)
  /\ coros' = [coros EXCEPT ![c] = IdleCoro]
  /\ loop' = {}
  /\ response' = Response("checkout", 500)
  /\ UNCHANGED <<cart, cart_order, orders, store_stats, current_discount_code,
                 active_connections, sockets, threads, redeemed, added,
                 replies>>

\* line 129: items_in_order = sum(DB["cart"].values())
checkout_L129(c) ==
  /\ coros[c].pc = "L129"
  /\ loop = {c}
  /\ coros' = [coros EXCEPT ![c].pc = "L131",
                            ![c].items_in_order = ItemsInOrder(cart)]
  /\ response' = NoResponse
  /\ UNCHANGED <<cart, cart_order, orders, store_stats,
                 current_discount_code, active_connections, sockets, threads,
                 loop, redeemed, added, replies>>

\* a bug: any non-empty code is taken, the current code is not compared
DiscountMatches_any(code, current) == Truthy(code)

\* a bug: while a code is active any submitted code is taken
DiscountMatches_active(code, current) == Truthy(code) /\ current # None

\* line 135: payload.discount_code and payload.discount_code == DB["current_discount_code"]
DiscountMatches(code, current) == Truthy(code) /\ code = current

\* line 136: subtotal * 0.10 (subtotal is a whole number of cents, so exact in mills)
DiscountOf(subtotal) == subtotal \div 10

\* a bug: the code stays active after use
Invalidate_keep(current) == current

\* line 138: DB["current_discount_code"] = None
Invalidate(current) == None

\* a bug: the id is the count before the append, so ids start at 0
NextOrderId_zero(os) == Len(os)

\* line 142: len(DB["orders"]) + 1
NextOrderId(os) == Len(os) + 1

\* lines 131-149: evaluate the discount, build the order, append it
checkout_L131(c) ==
  /\ coros[c].pc = "L131"
  /\ loop = {c}
  /\ LET me == coros[c]
         applied == DiscountMatches(me.discount_code, current_discount_code)
         discount_amount == IF applied THEN DiscountOf(me.subtotal) ELSE 0
         final_total == IF applied THEN me.subtotal - discount_amount
                        ELSE me.subtotal
     IN /\ current_discount_code' =
             IF applied THEN Invalidate(current_discount_code)
             ELSE current_discount_code
        /\ \E rs \in Round2(me.subtotal), rd \in Round2(discount_amount),
              rt \in Round2(final_total) :
             orders' = Append(orders,
                [order_id |-> NextOrderId(orders),
                 items |-> cart,
                 subtotal |-> rs,
                 discount_applied |-> applied,
                 discount_amount |-> rd,
                 total |-> rt])
        /\ redeemed' = IF applied THEN redeemed \cup {me.discount_code}
                        ELSE redeemed
        /\ coros' = [coros EXCEPT ![c].pc = "L152",
                                  ![c].discount_amount = discount_amount,
                                  ![c].final_total = final_total,
                                  ![c].discount_applied = applied]
  /\ response' = NoResponse
  /\ UNCHANGED <<cart, cart_order, store_stats, active_connections, sockets,
                 threads, loop, added, replies>>

\* lines 152-156: update stats
RecordStats(stats, items_in_order, final_total, discount_applied, discount_amount) ==
  [stats EXCEPT
     !.items_purchased_count = @ + items_in_order,
     !.total_purchase_amount = @ + final_total,
     !.total_discount_amount = IF discount_applied THEN @ + discount_amount ELSE @]

checkout_L152(c) ==
  /\ coros[c].pc = "L152"
  /\ loop = {c}
  /\ store_stats' = RecordStats(store_stats, coros[c].items_in_order,
                                coros[c].final_total, coros[c].discount_applied,
                                coros[c].discount_amount)
  /\ coros' = [coros EXCEPT ![c].pc = "L159"]
  /\ response' = NoResponse
  /\ UNCHANGED <<cart, cart_order, orders, current_discount_code,
                 active_connections, sockets, threads, loop, redeemed, added,
                 replies>>

\* line 159: DB["cart"] = {}
checkout_L159(c) ==
  /\ coros[c].pc = "L159"
  /\ loop = {c}
  /\ cart' = EmptyCart
  /\ cart_order' = <<>>
  /\ added' = [i \in ProductIds |-> 0]
  /\ coros' = [coros EXCEPT ![c].pc = "L162"]
  /\ response' = NoResponse
  /\ UNCHANGED <<orders, store_stats, current_discount_code,
                 active_connections, sockets, threads, loop, redeemed,
                 replies>>

\* a bug: the count is taken as if the order were not appended yet
IsMilestone_early(n) == (n + 1) % nth_order_value = 0

\* line 162: len(DB["orders"]) % DB["nth_order_value"] == 0
IsMilestone(n) == n % nth_order_value = 0

\* a bug: the new code becomes current but is not recorded in the list
checkout_L163_unlisted(c, new_code) ==
  /\ coros[c].pc = "L162"
  /\ loop = {c}
  /\ IsMilestone(Len(orders))
  /\ current_discount_code' = new_code
  /\ coros' = [coros EXCEPT ![c].pc = "L81", ![c].index = 1]
  /\ response' = NoResponse
  /\ UNCHANGED <<cart, cart_order, orders, store_stats, active_connections,
                 sockets, threads, loop, redeemed, added, replies>>

\* lines 162-165: the milestone order issues a new code, then starts the broadcast
checkout_L163(c, new_code) ==
  /\ coros[c].pc = "L162"
  /\ loop = {c}
  /\ IsMilestone(Len(orders))
  /\ current_discount_code' = new_code
  /\ store_stats' = [store_stats EXCEPT
                       !.discount_codes_list = Append(@, new_code)]
  /\ coros' = [coros EXCEPT ![c].pc = "L81", ![c].index = 1]
  /\ response' = NoResponse
  /\ UNCHANGED <<cart, cart_order, orders, active_connections, sockets,
                 threads, loop, redeemed, added, replies>>

\* lines 162, 169: not a milestone, return the order
checkout_L169(c) ==
  /\ coros[c].pc = "L162"
  /\ loop = {c}
  /\ ~IsMilestone(Len(orders))
  /\ coros' = [coros EXCEPT ![c] = IdleCoro]
  /\ loop' = {}
  /\ response' = Response("checkout", 200)
  /\ UNCHANGED <<cart, cart_order, orders, store_stats,
                 current_discount_code, active_connections, sockets, threads,
                 redeemed, added, replies>>

\* ----------------------------------------------------- ConnectionManager
\* line 81, the list iterator: takes the next connection and awaits its
\* send_text (line 82), which gives up the event loop
broadcast_L81(c) ==
  /\ coros[c].pc = "L81"
  /\ loop = {c}
  /\ coros[c].index <= Len(active_connections)
  /\ coros' = [coros EXCEPT ![c].pc = "L82",
                  ![c].connection = active_connections[coros[c].index],
                  ![c].index = @ + 1]
  /\ loop' = {}
  /\ response' = NoResponse
  /\ UNCHANGED <<cart, cart_order, orders, store_stats,
                 current_discount_code, active_connections, sockets, threads,
                 redeemed, added, replies>>

\* lines 81, 169: the iterator is exhausted, broadcast and checkout return
broadcast_return(c) ==
  /\ coros[c].pc = "L81"
  /\ loop = {c}
  /\ coros[c].index > Len(active_connections)
  /\ coros' = [coros EXCEPT ![c] = IdleCoro]
  /\ loop' = {}
  /\ response' = Response("checkout", 200)
  /\ UNCHANGED <<cart, cart_order, orders, store_stats,
                 current_discount_code, active_connections, sockets, threads,
                 redeemed, added, replies>>

\* line 82: await connection.send_text(message) completes
broadcast_L82(c) ==
  /\ coros[c].pc = "L82"
  /\ loop = {}
  /\ sockets[coros[c].connection].state = "open"
  /\ sockets' = [sockets EXCEPT ![coros[c].connection].received = @ + 1]
  /\ coros' = [coros EXCEPT ![c].pc = "L81", ![c].connection = 0]
  /\ loop' = {c}
  /\ response' = NoResponse
  /\ UNCHANGED <<cart, cart_order, orders, store_stats,
                 current_discount_code, active_connections, threads,
                 redeemed, added, replies>>

\* line 82: send_text raises on a connection the client has left; the
\* exception leaves broadcast and checkout, the request ends in a 500
broadcast_L82_raise(c) ==
  /\ coros[c].pc = "L82"
  /\ loop = {}
  /\ sockets[coros[c].connection].state \in {"disconnected", "closed"}
  /\ coros' = [coros EXCEPT ![c] = IdleCoro]
  /\ response' = Response("checkout", 500)
  /\ UNCHANGED <<cart, cart_order, orders, store_stats,
                 current_discount_code, active_connections, sockets, threads,
                 loop, redeemed, added, replies>>

\* lines 190, 73-74: the websocket handler starts and awaits
\* websocket.accept(), which gives up the event loop; the connection is not
\* registered yet. Every connection is a new WebSocket object, so w is not
\* one a broadcast still refers to
connect_L74(w) ==
  /\ loop = {}
  /\ sockets[w].state = "closed"
  /\ \A c \in Coros : coros[c].connection # w
  /\ sockets' = [sockets EXCEPT ![w] = [state |-> "accepting", received |-> 0]]
  /\ response' = NoResponse
  /\ UNCHANGED <<cart, cart_order, orders, store_stats,
                 current_discount_code, active_connections, threads, coros,
                 loop, redeemed, added, replies>>

\* line 75: accept has returned, the connection is appended to the list
connect_L75(w) ==
  /\ loop = {}
  /\ sockets[w].state = "accepting"
  /\ sockets' = [sockets EXCEPT ![w].state = "open"]
  /\ active_connections' = Append(active_connections, w)
  /\ response' = NoResponse
  /\ UNCHANGED <<cart, cart_order, orders, store_stats,
                 current_discount_code, threads, coros, loop, redeemed,
                 added, replies>>

\* the client stops reading: a send_text to it (line 82) does not complete
client_stall(w) ==
  /\ sockets[w].state = "open"
  /\ sockets' = [sockets EXCEPT ![w].state = "stalled"]
  /\ response' = NoResponse
  /\ UNCHANGED <<cart, cart_order, orders, store_stats,
                 current_discount_code, active_connections, threads, coros,
                 loop, redeemed, added, replies>>

\* the client closes its end; receive_text (line 195) will raise
client_disconnect(w) ==
  /\ sockets[w].state \in {"open", "stalled"}
  /\ sockets' = [sockets EXCEPT ![w].state = "disconnected"]
  /\ response' = NoResponse
  /\ UNCHANGED <<cart, cart_order, orders, store_stats,
                 current_discount_code, active_connections, threads, coros,
                 loop, redeemed, added, replies>>

\* lines 77-78: manager.disconnect(websocket) called on its own, on a
\* registered connection; list.remove takes out its first occurrence
disconnect(w) ==
  /\ loop = {}
  /\ w \in Registered(active_connections)
  /\ active_connections' = RemoveFirst(active_connections, w)
  /\ response' = NoResponse
  /\ UNCHANGED <<cart, cart_order, orders, store_stats,
                 current_discount_code, sockets, threads, coros, loop,
                 redeemed, added, replies>>

\* lines 77-78: manager.disconnect(websocket) on a connection that is not
\* in the list; list.remove raises ValueError
disconnect_raise(w) ==
  /\ loop = {}
  /\ w \notin Registered(active_connections)
  /\ response' = Response("disconnect", 500)
  /\ UNCHANGED <<cart, cart_order, orders, store_stats,
                 current_discount_code, active_connections, sockets, threads,
                 coros, loop, redeemed, added, replies>>

\* lines 196-197: WebSocketDisconnect on a connection that is no longer in
\* the list; manager.disconnect raises ValueError and the handler ends
websocket_endpoint_L197_raise(w) ==
  /\ loop = {}
  /\ sockets[w].state = "disconnected"
  /\ w \notin Registered(active_connections)
  /\ sockets' = [sockets EXCEPT ![w] = [state |-> "closed", received |-> 0]]
  /\ response' = Response("disconnect", 500)
  /\ UNCHANGED <<cart, cart_order, orders, store_stats,
                 current_discount_code, active_connections, threads, coros,
                 loop, redeemed, added, replies>>

\* lines 77-78, 196-197: WebSocketDisconnect, manager.disconnect(websocket)
websocket_endpoint_L197(w) ==
  /\ loop = {}
  /\ sockets[w].state = "disconnected"
  /\ w \in Registered(active_connections)
  /\ active_connections' = RemoveFirst(active_connections, w)
  /\ sockets' = [sockets EXCEPT ![w] = [state |-> "closed", received |-> 0]]
  /\ response' = NoResponse
  /\ UNCHANGED <<cart, cart_order, orders, store_stats,
                 current_discount_code, threads, coros, loop, redeemed,
                 added, replies>>

\* ------------------------------------------------------------------ Next
\* orders already appended plus checkouts that may still append one
OrdersInSight ==
  Len(orders) + Cardinality({c \in Coros :
                   coros[c].pc \in {"L125", "L128", "L128_next", "L129", "L131"}})

\* the quantity bound on an add request
WithinQty(item_id, quantity, max) ==
  /\ item_id \in ProductIds
  /\ Abs(CartGet(cart, item_id, 0) + quantity) <= max
  /\ Abs(added[item_id] + quantity) <= max

Steps ==
  \/ \E t \in Threads : add_to_cart_L110(t)
  \/ \E c \in Coros : checkout_400(c)
  \/ \E c \in Coros : checkout_L125(c)
  \/ \E c \in Coros : checkout_L128(c)
  \/ \E c \in Coros : checkout_L128_next(c)
  \/ \E c \in Coros : checkout_L128_stop(c)
  \/ \E c \in Coros : checkout_L129(c)
  \/ \E c \in Coros : checkout_L131(c)
  \/ \E c \in Coros : checkout_L152(c)
  \/ \E c \in Coros : checkout_L159(c)
  \/ \E c \in Coros, n \in Codes : checkout_L163(c, n)
  \/ \E c \in Coros : checkout_L169(c)
  \/ \E c \in Coros : broadcast_L81(c)
  \/ \E c \in Coros : broadcast_return(c)
  \/ \E c \in Coros : broadcast_L82(c)
  \/ \E c \in Coros : broadcast_L82_raise(c)
  \/ \E w \in Sockets : connect_L75(w)
  \/ \E w \in Sockets : client_disconnect(w)
  \/ \E w \in Sockets : websocket_endpoint_L197(w)

\* no add_to_cart request is running on a worker thread
ThreadsIdle == \A t \in Threads : threads[t].pc = "idle"

\* no HTTP request is in flight
Quiet == ThreadsIdle /\ \A c \in Coros : coros[c].pc = "idle"

\* Every interleaving: add_to_cart on worker threads, checkout coroutines and
\* websocket handlers on the event loop.
Next ==
  \/ \E t \in Threads, i \in ItemIds, q \in Quantities : add_to_cart_404(t, i, q)
  \/ \E t \in Threads, i \in ItemIds, q \in Quantities :
        WithinQty(i, q, MaxQty) /\ add_to_cart_L109(t, i, q)
  \/ \E c \in Coros, d \in PayloadCodes :
        OrdersInSight < MaxOrders /\ checkout_request(c, d)
  \/ \E w \in Sockets : connect_L74(w)
  \/ Steps

Spec == Init /\ [][Next]_vars

\* Concurrent checkouts, long runs: two checkout requests arrive at any time,
\* wait for the event loop and overlap each other, add_to_cart on its worker
\* thread and the broadcast to one subscriber. add_to_cart may arrive at any
\* time too, also while a checkout waits at line 125 or is past line 159, so
\* a waiting checkout can find the cart filled again; the quantity bound
\* admits one add per filling of the cart.
NextCo ==
  \/ \E t \in CoThreads, i \in CoItemIds, q \in CoQuantities :
        add_to_cart_404(t, i, q)
  \/ \E t \in CoThreads, i \in CoItemIds, q \in CoQuantities :
        WithinQty(i, q, CoMaxQty) /\ add_to_cart_L109(t, i, q)
  \/ \E c \in CoCoros, d \in PayloadCodes :
        OrdersInSight < CoMaxOrders /\ checkout_request(c, d)
  \/ \E w \in CoSockets : connect_L74(w)
  \/ Steps

SpecCo == Init /\ [][NextCo]_vars

\* One HTTP request at a time, as the test client sends them, over a wider
\* range of quantities; one subscriber.
NextSeq ==
  \/ \E t \in CoThreads, i \in SeqItemIds, q \in SeqQuantities :
        Quiet /\ add_to_cart_404(t, i, q)
  \/ \E t \in CoThreads, i \in SeqItemIds, q \in SeqQuantities :
        Quiet /\ WithinQty(i, q, SeqMaxQty) /\ add_to_cart_L109(t, i, q)
  \/ \E c \in SeqCoros, d \in PayloadCodes :
        Quiet /\ OrdersInSight < SeqMaxOrders /\ checkout_request(c, d)
  \/ \E w \in CoSockets : connect_L74(w)
  \/ Steps

SpecSeq == Init /\ [][NextSeq]_vars

\* ---------------------------------------------------------------- claims
Last(seq) == seq[Len(seq)]

Distinct(seq) == \A i, j \in 1..Len(seq) : i # j => seq[i] # seq[j]

CodesList == store_stats.discount_codes_list

\* pcs of the synchronous part of checkout, lines 128-165
SyncPcs == {"L128", "L128_next", "L129", "L131", "L152", "L159", "L162"}

\* C1: a discount code is accepted at most once. While the issued codes are
\* pairwise distinct, a checkout that submits a code some earlier checkout
\* has already applied creates its order with discount_applied = FALSE and
\* discount_amount = 0.
C1_AcceptedAtMostOnce ==
  [][\A c \in Coros :
       (/\ coros[c].pc = "L131" /\ coros'[c].pc = "L152"
        /\ coros[c].discount_code \in redeemed
        /\ Distinct(CodesList))
       => (/\ Len(orders') = Len(orders) + 1
           /\ ~Last(orders').discount_applied
           /\ Last(orders').discount_amount = 0)]_vars

\* a checkout has re-submitted a redeemed code and its order carries no discount
C1_Witness ==
  \E c \in Coros :
    /\ coros[c].pc = "L152"
    /\ coros[c].discount_code \in redeemed
    /\ ~coros[c].discount_applied
    /\ Distinct(CodesList)
    /\ ~Last(orders).discount_applied
    /\ \E k \in 1..(Len(orders) - 1) : orders[k].discount_applied

\* C2: of the checkouts that race for one active code at most one gets it.
\* Two orders with discount_applied = TRUE are always separated by the issue
\* of a new code (a milestone order), and never two checkouts are inside the
\* synchronous part (check of the code, clearing, order, stats) at once.
C2_OneCheckoutPerCode ==
  /\ \A i, j \in 1..Len(orders) :
       (i < j /\ orders[i].discount_applied /\ orders[j].discount_applied)
       => \E m \in i..(j - 1) : m % nth_order_value = 0
  /\ \A c, d \in Coros :
       (c # d /\ coros[c].pc \in SyncPcs) => coros[d].pc \notin SyncPcs
  /\ \A c \in Coros : coros[c].pc \in SyncPcs => loop = {c}

\* both racers have created their orders: a checkout arrived with the only
\* code ever issued while that code was still the current one, another
\* checkout applied the code in the meantime (the order before the last),
\* the cart was filled again, and the late checkout has appended its own
\* order without the discount
C2_Witness ==
  \E d \in Coros :
    /\ coros[d].pc = "L152"
    /\ coros[d].active_at_request
    /\ ~coros[d].discount_applied
    /\ Len(CodesList) = 1
    /\ coros[d].discount_code = CodesList[1]
    /\ coros[d].discount_code \in redeemed
    /\ Len(orders) >= 2
    /\ orders[Len(orders) - 1].discount_applied
    /\ ~Last(orders).discount_applied
    /\ Last(orders).discount_amount = 0

\* C3: in every reachable state the k-th order has order_id k: ids start at
\* 1, have no gaps and no duplicates.
C3_OrderIdsDense ==
  \A k \in 1..Len(orders) : orders[k].order_id = k

\* a fourth order has just been appended by one checkout while the checkout
\* of the third order is still broadcasting
C3_Witness ==
  /\ Len(orders) = 4
  /\ \A k \in 1..4 : orders[k].order_id = k
  /\ \E c, d \in Coros : c # d /\ coros[c].pc = "L152" /\ coros[d].pc = "L82"

\* C4: a code is issued exactly by the checkouts whose order number K is a
\* multiple of nth_order_value. The list holds floor(K / N) codes (one fewer
\* while the milestone checkout is between its append and its issue step);
\* the list only grows by one code at a time, that code becomes the current
\* code, and this happens only when the order count is a multiple of N; the
\* current code is never set to a code in any other step.
C4_IssuePending ==
  /\ Len(orders) % nth_order_value = 0
  /\ \E c \in Coros : coros[c].pc \in {"L152", "L159", "L162"}

C4_CodeEveryNth ==
  /\ [](Len(CodesList) =
          IF C4_IssuePending THEN (Len(orders) \div nth_order_value) - 1
          ELSE Len(orders) \div nth_order_value)
  /\ [][/\ CodesList' # CodesList =>
             /\ Len(orders) > 0
             /\ Len(orders) % nth_order_value = 0
             /\ orders' = orders
             /\ Len(CodesList') = Len(CodesList) + 1
             /\ SubSeq(CodesList', 1, Len(CodesList)) = CodesList
             /\ current_discount_code' = Last(CodesList')
        /\ (current_discount_code' # current_discount_code
              /\ current_discount_code' # None) => CodesList' # CodesList]_vars

\* four checkouts are complete: the third issued the only code
C4_Witness ==
  /\ Len(orders) = 4
  /\ Len(CodesList) = 1
  /\ \A c \in Coros : coros[c].pc \notin SyncPcs

\* the DB fields a rejected request must leave alone
DB == <<cart, orders, store_stats, current_discount_code>>

\* C5: a checkout that finds the cart empty answers 400 and leaves the cart,
\* the orders, the statistics and the current code unchanged; and every order
\* was created from a cart holding at least one purchased unit.
C5_EmptyCartRejected ==
  /\ [][\A c \in Coros :
          (coros[c].pc = "L125" /\ coros'[c].pc # "L125" /\ DOMAIN cart = {})
          => (response' = Response("checkout", 400) /\ DB' = DB)]_vars
  /\ [](\A k \in 1..Len(orders) : ItemsInOrder(orders[k].items) >= 1)

\* C6: every order's stored total is its stored subtotal minus its stored
\* discount_amount, and an order without discount has discount_amount = 0.
C6_TotalIsSubtotalMinusDiscount ==
  \A k \in 1..Len(orders) :
    /\ orders[k].total = orders[k].subtotal - orders[k].discount_amount
    /\ ~orders[k].discount_applied => orders[k].discount_amount = 0

\* C7: no add_to_cart request with a quantity <= 0 gets past validation, and
\* every entry of the cart has a positive quantity.
C7_QuantitiesPositive ==
  /\ \A t \in Threads : threads[t].pc = "L110" => threads[t].quantity > 0
  /\ \A i \in DOMAIN cart : cart[i] > 0

\* C8: whenever no add_to_cart is in flight, the cart quantity of every item
\* is the sum of the quantities added for it since the cart was last cleared.
C8_CartIsSumOfAdds ==
  ThreadsIdle => \A i \in ProductIds : CartGet(cart, i, 0) = added[i]

\* C9: no step decreases items_purchased_count or total_purchase_amount, and
\* only the statistics step of a checkout changes them.
C9_CountersNeverDecrease ==
  [][/\ store_stats'.items_purchased_count >= store_stats.items_purchased_count
     /\ store_stats'.total_purchase_amount >= store_stats.total_purchase_amount
     /\ (\/ store_stats'.items_purchased_count # store_stats.items_purchased_count
         \/ store_stats'.total_purchase_amount # store_stats.total_purchase_amount)
        => \E c \in Coros : coros[c].pc = "L152" /\ coros'[c].pc = "L159"]_vars

SumOfTotals == SumOver([k \in 1..Len(orders) |-> orders[k].total], 1..Len(orders))

\* C10: once every appended order has had its statistics recorded,
\* total_purchase_amount is the sum of the stored totals of all orders.
C10_RevenueIsSumOfTotals ==
  (\A c \in Coros : coros[c].pc # "L152")
  => store_stats.total_purchase_amount = SumOfTotals

SumOfDiscounts ==
  SumOver([k \in 1..Len(orders) |->
             IF orders[k].discount_applied THEN orders[k].discount_amount ELSE 0],
          1..Len(orders))

\* C11: once every appended order has had its statistics recorded,
\* total_discount_amount is the sum of the stored (rounded) discount_amount
\* of the orders with discount_applied = TRUE.
C11_DiscountTotalIsSumOfDiscounts ==
  (\A c \in Coros : coros[c].pc # "L152")
  => store_stats.total_discount_amount = SumOfDiscounts

\* ------------------------------------------------------- admin endpoints
\* lines 173-178: get_store_stats, a sync endpoint on a worker thread; it
\* reads nothing, it returns the live dict DB["store_stats"]
get_store_stats(t) ==
  /\ threads[t].pc = "idle"
  /\ replies' = replies \cup {"get_store_stats"}
  /\ response' = NoResponse
  /\ UNCHANGED <<cart, cart_order, orders, store_stats,
                 current_discount_code, active_connections, sockets, threads,
                 coros, loop, redeemed, added>>

\* the reply to get_store_stats: the framework encodes the returned dict on
\* the event loop, as it is at that moment
get_store_stats_reply ==
  /\ loop = {}
  /\ "get_store_stats" \in replies
  /\ replies' = replies \ {"get_store_stats"}
  /\ response' = Response("get_store_stats", 200)
  /\ UNCHANGED <<cart, cart_order, orders, store_stats,
                 current_discount_code, active_connections, sockets, threads,
                 coros, loop, redeemed, added>>

\* lines 180-185: get_all_orders, a sync endpoint on a worker thread; it
\* returns the live list DB["orders"]
get_all_orders(t) ==
  /\ threads[t].pc = "idle"
  /\ replies' = replies \cup {"get_all_orders"}
  /\ response' = NoResponse
  /\ UNCHANGED <<cart, cart_order, orders, store_stats,
                 current_discount_code, active_connections, sockets, threads,
                 coros, loop, redeemed, added>>

\* the reply to get_all_orders: the returned list is encoded on the event
\* loop, as it is at that moment
get_all_orders_reply ==
  /\ loop = {}
  /\ "get_all_orders" \in replies
  /\ replies' = replies \ {"get_all_orders"}
  /\ response' = Response("get_all_orders", 200)
  /\ UNCHANGED <<cart, cart_order, orders, store_stats,
                 current_discount_code, active_connections, sockets, threads,
                 coros, loop, redeemed, added>>

\* One worker thread against one checkout, two items, no discount code
\* submitted, checkouts of orders that issue no code: add_to_cart and the
\* admin handlers interleave with every line of checkout; one admin request
\* at a time.
NextRace ==
  \/ \E t \in CoThreads, i \in RaceItemIds, q \in Quantities :
        add_to_cart_404(t, i, q)
  \/ \E t \in CoThreads, i \in RaceItemIds, q \in Quantities :
        WithinQty(i, q, RaceMaxQty) /\ add_to_cart_L109(t, i, q)
  \/ \E t \in CoThreads : add_to_cart_L110(t)
  \/ \E t \in CoThreads : replies = {} /\ get_store_stats(t)
  \/ \E t \in CoThreads : replies = {} /\ get_all_orders(t)
  \/ get_store_stats_reply
  \/ get_all_orders_reply
  \/ \E c \in SeqCoros :
        /\ OrdersInSight < RaceMaxOrders
        /\ ~IsMilestone(OrdersInSight + 1)
        /\ checkout_request(c, None)
  \/ \E c \in SeqCoros : checkout_400(c)
  \/ \E c \in SeqCoros : checkout_L125(c)
  \/ \E c \in SeqCoros : checkout_L128(c)
  \/ \E c \in SeqCoros : checkout_L128_next(c)
  \/ \E c \in SeqCoros : checkout_L128_stop(c)
  \/ \E c \in SeqCoros : checkout_L128_raise(c)
  \/ \E c \in SeqCoros : checkout_L129(c)
  \/ \E c \in SeqCoros : checkout_L131(c)
  \/ \E c \in SeqCoros : checkout_L152(c)
  \/ \E c \in SeqCoros : checkout_L159(c)
  \/ \E c \in SeqCoros : checkout_L169(c)

SpecRace == Init /\ [][NextRace]_vars

\* the units purchased according to the order sequence
UnitsInOrders ==
  SumOver([k \in 1..Len(orders) |-> ItemsInOrder(orders[k].items)],
          1..Len(orders))

\* C12: whenever a get-stats or get-orders request is answered, the state it
\* has read has items_purchased_count equal to the sum of the item
\* quantities over all orders.
C12_OrderAndStatsAtomic ==
  [][response'.handler \in {"get_store_stats", "get_all_orders"}
     => store_stats.items_purchased_count = UnitsInOrders]_vars

\* C13: a failed delivery does not end the broadcast for the others. When a
\* broadcast stops at a delivery that failed, no registered subscriber is left
\* that the broadcast has not visited yet, and the subscriber whose delivery
\* failed is no longer registered.
C13_DeliveryIndependent ==
  [][\A c \in Coros :
       (coros[c].pc = "L82" /\ coros'[c].pc = "idle")
       => /\ \A k \in coros[c].index..Len(active_connections) :
               active_connections[k] = coros[c].connection
          /\ coros[c].connection \notin Registered(active_connections')]_vars

\* C14: a milestone checkout answers 200 whatever happens to the deliveries:
\* every checkout that has started its broadcast ends with a 200 response.
C14_CheckoutIgnoresDelivery ==
  [][\A c \in Coros :
       (coros[c].pc \in {"L81", "L82"} /\ coros'[c].pc = "idle")
       => response' = Response("checkout", 200)]_vars

\* ------------------------------------------------------------- liveness
\* the steps of one checkout request, up to its response
CheckoutStep(c) ==
  \/ checkout_400(c) \/ checkout_L125(c) \/ checkout_L128(c)
  \/ checkout_L128_next(c) \/ checkout_L128_stop(c) \/ checkout_L128_raise(c)
  \/ checkout_L129(c) \/ checkout_L131(c) \/ checkout_L152(c)
  \/ checkout_L159(c) \/ (\E n \in Codes : checkout_L163(c, n))
  \/ checkout_L169(c) \/ broadcast_L81(c) \/ broadcast_return(c)
  \/ broadcast_L82(c) \/ broadcast_L82_raise(c)

\* the server keeps running what it can run: worker threads, the coroutines
\* on the event loop, the websocket handlers; clients owe nothing
Fairness ==
  /\ \A t \in Threads : WF_vars(add_to_cart_L110(t))
  /\ \A c \in Coros : WF_vars(CheckoutStep(c))
  /\ \A w \in Sockets : WF_vars(connect_L75(w))
  /\ \A w \in Sockets : WF_vars(websocket_endpoint_L197(w))

\* One request at a time, and a subscriber that may stop reading.
NextLive ==
  \/ \E t \in CoThreads, i \in ItemIds, q \in Quantities :
        Quiet /\ add_to_cart_404(t, i, q)
  \/ \E t \in CoThreads, i \in ItemIds, q \in Quantities :
        Quiet /\ WithinQty(i, q, MaxQty) /\ add_to_cart_L109(t, i, q)
  \/ \E c \in SeqCoros, d \in PayloadCodes :
        Quiet /\ OrdersInSight < MaxOrders /\ checkout_request(c, d)
  \/ \E w \in CoSockets : connect_L74(w)
  \/ \E w \in CoSockets : client_stall(w)
  \/ Steps

SpecLive == Init /\ [][NextLive]_vars /\ Fairness

\* C15: every checkout that has begun a delivery eventually answers its
\* caller, and a subscriber that has stopped reading is eventually no longer
\* registered.
C15_StalledSubscriberBounded ==
  /\ \A c \in Coros : (coros[c].pc = "L82") ~> (coros[c].pc = "idle")
  /\ \A w \in Sockets :
       (sockets[w].state = "stalled") ~> (w \notin Registered(active_connections))

\* checkout c is between its discount check and its return, a code is
\* active, and c has submitted a code that is not the active one
Mismatched(c) ==
  /\ coros[c].pc \in {"L131", "L152", "L159", "L162"}
  /\ Truthy(coros[c].discount_code)
  /\ current_discount_code # None
  /\ IF coros[c].pc = "L131"
     THEN coros[c].discount_code # current_discount_code
     ELSE ~coros[c].discount_applied

\* the order a mismatched checkout creates carries no discount
NoDiscountOrder(c) ==
  (coros[c].pc = "L131" /\ coros'[c].pc = "L152")
  => /\ Len(orders') = Len(orders) + 1
     /\ ~Last(orders').discount_applied
     /\ Last(orders').discount_amount = 0
     /\ Last(orders').total = Last(orders').subtotal

\* C16 as stated: a checkout that submits a code other than the active one
\* creates its order without discount, answers 200 when it returns, and in
\* none of its steps, whatever the number of its order, changes the current
\* discount code.
C16_MismatchLeavesCode ==
  [][\A c \in Coros :
       Mismatched(c)
       => /\ NoDiscountOrder(c)
          /\ current_discount_code' = current_discount_code
          /\ coros'[c].pc = "idle" => response' = Response("checkout", 200)]_vars

\* C16 amended: such a checkout creates its order without discount; its
\* discount check, order, statistics and cart steps leave the current code
\* unchanged; when its order is not a milestone it answers 200 with the code
\* still current, and a later checkout that submits the current code gets the
\* discount; when its order is a milestone (a multiple of nth_order_value)
\* the code it issues replaces the current code.
C16_MismatchKeepsCodeUntilMilestone ==
  [][/\ \A c \in Coros :
          Mismatched(c)
          => /\ NoDiscountOrder(c)
             /\ current_discount_code' # current_discount_code
                => /\ coros[c].pc = "L162" /\ coros'[c].pc = "L81"
                   /\ IsMilestone(Len(orders))
                   /\ current_discount_code' = Last(CodesList')
                   /\ Len(CodesList') = Len(CodesList) + 1
             /\ (coros[c].pc = "L162" /\ coros'[c] # coros[c]
                   /\ ~IsMilestone(Len(orders)))
                => /\ coros'[c].pc = "idle"
                   /\ response' = Response("checkout", 200)
                   /\ current_discount_code' = current_discount_code
     /\ \A d \in Coros :
          (/\ coros[d].pc = "L131" /\ coros'[d].pc = "L152"
           /\ Truthy(coros[d].discount_code)
           /\ coros[d].discount_code = current_discount_code)
          => Last(orders').discount_applied /\ current_discount_code' = None]_vars

\* a checkout with a wrong code has created the fifth order, without discount,
\* and the code issued with the third order is still current
C16_Witness ==
  \E c \in Coros :
    /\ coros[c].pc = "L162"
    /\ Mismatched(c)
    /\ Len(orders) = 5
    /\ ~Last(orders).discount_applied
    /\ current_discount_code = Last(CodesList)

\* The ConnectionManager used directly: besides the requests of NextLive,
\* disconnect is called on any connection, registered or not.
NextManager ==
  \/ NextLive
  \/ \E w \in CoSockets : disconnect(w)
  \/ \E w \in CoSockets : disconnect_raise(w)
  \/ \E w \in CoSockets : websocket_endpoint_L197_raise(w)

SpecManager == Init /\ [][NextManager]_vars

\* C17: no call of disconnect ends in an error, also when the connection is
\* not, or no longer, in active_connections.
C17_UnsubscribeIdempotent ==
  response # Response("disconnect", 500)

\* C18: an add_to_cart that overlaps a checkout is serialized against it.
\* Every order's subtotal is the priced sum of its own items snapshot, its
\* snapshot holds as many units as the checkout counted, and when a checkout
\* clears the cart with no add_to_cart in flight, the units added since the
\* previous clear are exactly the units of its order: none is dropped.
C18_AddSerializedWithCheckout ==
  /\ [](\A k \in 1..Len(orders) :
          orders[k].subtotal = Subtotal(orders[k].items))
  /\ [](\A c \in Coros :
          coros[c].pc \in {"L152", "L159"}
          => coros[c].items_in_order = ItemsInOrder(Last(orders).items))
  /\ [][\A c \in Coros :
          (coros[c].pc = "L159" /\ coros'[c].pc = "L162" /\ ThreadsIdle)
          => \A i \in ProductIds :
               added[i] = CartGet(Last(orders).items, i, 0)]_vars

\* the subscribers broadcast c has still to deliver to: the one it is
\* sending to and those its list iterator has not reached
ToDeliver(c) ==
  {active_connections[k] : k \in coros[c].index..Len(active_connections)}
    \cup (IF coros[c].pc = "L82" THEN {coros[c].connection} ELSE {})

\* the subscribers that get the message in this step
DeliveredNow == {w \in Sockets : sockets'[w].received = sockets[w].received + 1}

\* no subscriber that stays registered drops out of what the broadcast has
\* still to deliver, except by getting the message
C19_NoneSkipped ==
  [][\A c \in Coros :
       (coros[c].pc \in {"L81", "L82"} /\ coros'[c].pc \in {"L81", "L82"})
       => ((ToDeliver(c) \cap Registered(active_connections')) \ DeliveredNow)
            \subseteq ToDeliver(c)']_vars

\* C19: a broadcast tolerates subscribers that leave or join while it runs.
\* No subscriber that stays registered is skipped, the broadcast ends only
\* when nothing is left to deliver, and it ends without an error.
C19_BroadcastToleratesChanges ==
  /\ C19_NoneSkipped
  /\ [][\A c \in Coros :
          (coros[c].pc \in {"L81", "L82"} /\ coros'[c].pc = "idle")
          => /\ ToDeliver(c) \cap Registered(active_connections') = {}
             /\ response'.status # 500]_vars

\* C20: the current discount code is absent or is the last code of
\* discount_codes_list. Only the milestone step of a checkout sets it, and
\* appends it to the list in the same step; only the checkout that redeems it
\* clears it; and the code a checkout applies is one the list already held
\* when that checkout checked it, so never the code that checkout issues.
C20_CurrentCodeIsLastIssued ==
  /\ [](current_discount_code = None
          \/ (Len(CodesList) > 0 /\ current_discount_code = Last(CodesList)))
  /\ [][/\ current_discount_code' \notin {None, current_discount_code}
             => /\ \E c \in Coros : coros[c].pc = "L162" /\ coros'[c].pc = "L81"
                /\ CodesList' = Append(CodesList, current_discount_code')
        /\ (current_discount_code # None /\ current_discount_code' = None)
             => \E c \in Coros :
                  /\ coros[c].pc = "L131" /\ coros'[c].pc = "L152"
                  /\ coros[c].discount_code = current_discount_code
                  /\ Last(orders').discount_applied
        /\ \A c \in Coros :
             (coros[c].pc = "L131" /\ coros'[c].pc = "L152"
                /\ coros'[c].discount_applied)
             => /\ Len(CodesList) > 0
                /\ coros[c].discount_code = Last(CodesList)
                /\ CodesList' = CodesList]_vars

\* the code of the third order was redeemed by the fourth, and the sixth
\* order has issued the second code, now current
C20_Witness ==
  /\ Len(orders) = 6
  /\ orders[4].discount_applied
  /\ Len(CodesList) = 2
  /\ current_discount_code = Last(CodesList)
  /\ \E c \in Coros : coros[c].pc = "L81"

====
